---- MODULE Spec2Model ----
(***************************************************************************)
(* A model of surrealdb_json_cli (src/src/main.rs): the import and export  *)
(* commands, the per-table export tasks, and the record transformations    *)
(* they apply (generate_insert, convert_id, extract_fields,                *)
(* records_to_csv, value_to_string).                                       *)
(*                                                                         *)
(* The database, the file system and the two JSON libraries are the        *)
(* environment: every answer they can give is an input chosen with \E or   *)
(* in Init.  Text is modelled by TLA+ strings; the strings of the model    *)
(* hold no character that JSON has to escape.                              *)
(***************************************************************************)
EXTENDS Integers, Sequences, FiniteSets, TLC

(***************************************************************************)
(* serde_json::Value.  An object keeps its keys in iteration order.        *)
(***************************************************************************)
Null == [kind |-> "null"]
Bool(b) == [kind |-> "bool", b |-> b]
Num(n) == [kind |-> "number", n |-> n]
Str(s) == [kind |-> "string", s |-> s]
Arr(items) == [kind |-> "array", items |-> items]
Obj(keys, vals) == [kind |-> "object", keys |-> keys, vals |-> vals]

\* Option::None, for the operators that return Option<Value>.
None == [kind |-> "none"]

HasKey(v, key) == v.kind = "object" /\ \E i \in 1..Len(v.keys) : v.keys[i] = key

KeyIndex(v, key) == CHOOSE i \in 1..Len(v.keys) : v.keys[i] = key

\* Value::get(&str): the member of an object, None for a missing key and
\* for every value that is not an object.
Get(v, key) == IF HasKey(v, key) THEN v.vals[KeyIndex(v, key)] ELSE None

\* The object with member `key` set to `val` (the write through get_mut).
SetKey(v, key, val) == Obj(v.keys, [v.vals EXCEPT ![KeyIndex(v, key)] = val])

(***************************************************************************)
(* Text of numbers and of JSON values.                                     *)
(***************************************************************************)
Digit == <<"0", "1", "2", "3", "4", "5", "6", "7", "8", "9">>

RECURSIVE NatString(_)
NatString(n) ==
    IF n < 10 THEN Digit[n + 1]
    ELSE NatString(n \div 10) \o Digit[(n % 10) + 1]

\* Display of an i64.
DecimalString(k) == IF k < 0 THEN "-" \o NatString(0 - k) ELSE NatString(k)

BoolString(b) == IF b THEN "true" ELSE "false"

RECURSIVE CompactJson(_)
RECURSIVE JoinItems(_)
RECURSIVE JoinMembers(_, _)

\* serde_json::to_string: compact JSON text.
CompactJson(v) ==
    CASE v.kind = "null" -> "null"
      [] v.kind = "bool" -> BoolString(v.b)
      [] v.kind = "number" -> DecimalString(v.n)
      [] v.kind = "string" -> "\"" \o v.s \o "\""
      [] v.kind = "array" -> "[" \o JoinItems(v.items) \o "]"
      [] v.kind = "object" -> "{" \o JoinMembers(v.keys, v.vals) \o "}"

JoinItems(items) ==
    IF Len(items) = 0 THEN ""
    ELSE IF Len(items) = 1 THEN CompactJson(items[1])
    ELSE CompactJson(items[1]) \o "," \o JoinItems(Tail(items))

JoinMembers(keys, vals) ==
    IF Len(keys) = 0 THEN ""
    ELSE LET m == "\"" \o keys[1] \o "\":" \o CompactJson(vals[1])
         IN  IF Len(keys) = 1 THEN m
             ELSE m \o "," \o JoinMembers(Tail(keys), Tail(vals))

\* A variant that prints null as JSON does.
value_to_string_json_null(val) ==
    IF val.kind = "string" THEN val.s ELSE CompactJson(val)

value_to_string(val) ==
    CASE val.kind = "null" -> "NULL"
      [] val.kind = "bool" -> BoolString(val.b)
      [] val.kind = "number" -> DecimalString(val.n)
      [] val.kind = "string" -> val.s
      [] val.kind = "array" -> CompactJson(val)
      [] val.kind = "object" -> CompactJson(val)

\* The closure format_record of records_to_csv.
format_record(fields, rec) ==
    [i \in 1..Len(fields) |->
        LET val == Get(rec, fields[i])
        IN  IF val.kind # "none" THEN value_to_string(val) ELSE "NULL"]

records_to_csv(fields, records) ==
    [r \in 1..Len(records) |-> format_record(fields, records[r])]

(***************************************************************************)
(* sql::Thing and sql::Id as serde reads them from a JSON value: a Thing   *)
(* is {"tb": <string>, "id": <Id>}, an Id is {"Number": <integer>} or      *)
(* {"String": <string>}.                                                   *)
(***************************************************************************)
ThingValue(tb, id) == Obj(<<"tb", "id">>, <<Str(tb), id>>)
IdNumber(k) == Obj(<<"Number">>, <<Num(k)>>)
IdString(s) == Obj(<<"String">>, <<Str(s)>>)

IsId(v) ==
    /\ v.kind = "object"
    /\ Len(v.keys) = 1
    /\ \/ v.keys[1] = "Number" /\ v.vals[1].kind = "number"
       \/ v.keys[1] = "String" /\ v.vals[1].kind = "string"

\* serde_json::from_value::<sql::Thing>(v).ok(): is v a Thing.
IsThing(v) ==
    /\ v.kind = "object"
    /\ Len(v.keys) = 2
    /\ HasKey(v, "tb") /\ Get(v, "tb").kind = "string"
    /\ HasKey(v, "id") /\ IsId(Get(v, "id"))

\* format!("{}", thing.id)
IdDisplay(id) ==
    IF id.keys[1] = "Number" THEN DecimalString(id.vals[1].n) ELSE id.vals[1].s

\* A variant that prints the whole identifier, table and key.
convert_id_whole_thing(record) ==
    LET id == Get(record, "id")
    IN  IF id.kind = "none" THEN [some |-> FALSE, record |-> record]
        ELSE IF ~IsThing(id) THEN [some |-> FALSE, record |-> record]
        ELSE [some |-> TRUE,
              record |-> SetKey(record, "id",
                            Str(Get(id, "tb").s \o ":" \o IdDisplay(Get(id, "id"))))]

\* convert_id works in place: `record` is the record after the call, `some`
\* tells whether it returned Some.
convert_id(record) ==
    LET id == Get(record, "id")
    IN  IF id.kind = "none" THEN [some |-> FALSE, record |-> record]
        ELSE IF ~IsThing(id) THEN [some |-> FALSE, record |-> record]
        ELSE [some |-> TRUE,
              record |-> SetKey(record, "id", Str(IdDisplay(Get(id, "id"))))]

\* The closure select_table maps over the rows the database returned: the
\* record itself when convert_id returned None, a copy of the one it returned
\* otherwise; both are the record as convert_id left it.
convert_row(record) == convert_id(record).record

\* select_table, after the database has answered with `rows`.
select_table(rows) == [i \in 1..Len(rows) |-> convert_row(rows[i])]

(***************************************************************************)
(* extract_fields on the answer to INFO FOR TABLE.  The answer is          *)
(* [kind |-> "query_err"] (the query failed), [kind |-> "take_err"] (the   *)
(* statement failed), None (no table info) or the table info, a Value.     *)
(***************************************************************************)
Ok(v) == [tag |-> "Ok", val |-> v]
Err(msg) == [tag |-> "Err", msg |-> msg]
Panic == [tag |-> "Panic"]
\* No result yet.
NoResult == [tag |-> "None"]

extract_fields(resp) ==
    IF resp.kind = "query_err" THEN Err("query")
    ELSE IF resp.kind = "take_err" THEN Err("take")
    ELSE IF resp.kind = "none" THEN Err("failed to return table info")
    ELSE IF resp.kind \notin {"object", "null"} THEN Panic
    ELSE LET fields == IF HasKey(resp, "fields") THEN Get(resp, "fields") ELSE Null
         IN  IF fields.kind # "object" THEN Err("invalid type")
             ELSE Ok(fields.keys)

(***************************************************************************)
(* Bounds and the sets the inputs are drawn from.                          *)
(***************************************************************************)
MaxTables == 2
MaxFiles == 2
MaxRecords == 2
MaxFields == 2

BSeq(S, n) == UNION {[1..k -> S] : k \in 0..n}
NonEmptySeq(S, n) == UNION {[1..k -> S] : k \in 1..n}

VARIABLES
    \* export
    format,        \* args.format
    tables,        \* args.tables
    pc,            \* where export is
    exportResult,  \* what export returned: "none" while it runs
    task,          \* the JoinSet's tasks, by position in args.tables
    joined,        \* the tasks join_next has yielded
    reported,      \* the tables export returned or logged as failed
    disk,          \* the output files
    \* import
    files,         \* args.files
    imPc,          \* where import is
    imIdx,         \* the file the loop is at
    imResult,      \* what import ended with: "none", "Ok", "Err" or "Panic"
    imCause,       \* the step that ended it
    loaded,        \* what generate_insert returned for file imIdx
    reads,         \* the files read so far
    inserts,       \* the insert queries sent so far
    \* one table's data on its way to a CSV file
    dbRows,        \* the rows the select returned
    dbInfo,        \* the answer to INFO FOR TABLE
    csvRecords,    \* records, after select_table
    csvFields,     \* what extract_fields returned
    csvRows,       \* what records_to_csv returned
    csvFile,       \* the records written to the file, header first
    csvPc          \* where export_table_as_csv is

exportVars == <<format, tables, pc, exportResult, task, joined, reported, disk>>
importVars == <<files, imPc, imIdx, imResult, imCause, loaded, reads, inserts>>
dataVars == <<dbRows, dbInfo, csvRecords, csvFields, csvRows, csvFile, csvPc>>
vars == <<exportVars, importVars, dataVars>>

ExportIdle ==
    /\ format = "json" /\ tables = <<>> /\ pc = "idle" /\ exportResult = "none"
    /\ task = <<>> /\ joined = {} /\ reported = {} /\ disk = <<>>

ImportIdle ==
    /\ files = <<>> /\ imPc = "idle" /\ imIdx = 0 /\ imResult = "none"
    /\ imCause = ""
    /\ loaded = NoResult /\ reads = <<>> /\ inserts = <<>>

DataIdle ==
    /\ dbRows = <<>> /\ dbInfo = None /\ csvRecords = <<>>
    /\ csvFields = NoResult /\ csvRows = <<>> /\ csvFile = <<>> /\ csvPc = "idle"

(***************************************************************************)
(* export.  The database of this part holds two tables: t1 has two         *)
(* declared fields and one row in the window select_table asks for (its    *)
(* key is 1, the only one in 1..2), t2 declares none and has a row with a  *)
(* plain id.  Whether an answer arrives at all is chosen per call.         *)
(***************************************************************************)
Tables == {"t1", "t2"}

DbRows(table) ==
    IF table = "t1"
    THEN <<Obj(<<"id", "name">>, <<ThingValue("t1", IdNumber(1)), Str("Al")>>)>>
    ELSE <<Obj(<<"id">>, <<Str("x")>>)>>

DbInfo(table) ==
    IF table = "t1"
    THEN Obj(<<"events", "fields">>,
             <<Obj(<<>>, <<>>), Obj(<<"id", "name">>, <<Str("DEFINE"), Str("DEFINE")>>)>>)
    ELSE Obj(<<"events", "fields">>, <<Obj(<<>>, <<>>), Obj(<<>>, <<>>)>>)

\* FileFormat::from_str
from_str(s) == IF s \in {"json", "csv"} THEN Ok(s) ELSE Err("invalid file format")

\* format!("{}.json", table), format!("{}.csv", table)
FileName(table, fmt) == table \o "." \o fmt

Absent == [state |-> "absent", data |-> <<>>]
OldFile == [state |-> "old", data |-> <<"left by an earlier run">>]
\* File::create: a new empty file, or the old one truncated.
Created == [state |-> "new", data |-> <<>>]

\* serde_json::to_string_pretty
PrettyJson(v) == [pretty |-> v]

Unspawned ==
    [pc |-> "unspawned", cause |-> "", records |-> <<>>, fields |-> <<>>,
     rows |-> <<>>, json |-> None, created |-> FALSE]

Finished == {"done", "failed", "panicked", "cancelled"}

Spawned == {i \in 1..Len(tables) : task[i].pc # "unspawned"}
Running == {i \in Spawned : task[i].pc \notin Finished}

OutFile(i) == FileName(tables[i], format)

Fail(i, cause) == [task EXCEPT ![i].pc = "failed", ![i].cause = cause]

InitExport ==
    /\ format \in {"json", "csv", "xml"}
    /\ tables \in NonEmptySeq(Tables, MaxTables)
    /\ pc = "from_str"
    /\ exportResult = "none"
    /\ task = [i \in 1..Len(tables) |-> Unspawned]
    /\ joined = {}
    /\ reported = {}
    /\ disk \in [{FileName(t, format) : t \in Tables} -> {Absent, OldFile}]
    /\ ImportIdle /\ DataIdle

\* export, line 195
ParseFormat ==
    /\ pc = "from_str"
    /\ IF from_str(format).tag = "Ok"
       THEN pc' = "connect" /\ exportResult' = exportResult
       ELSE pc' = "returned" /\ exportResult' = "Err"
    /\ UNCHANGED <<format, tables, task, joined, reported, disk>>
    /\ UNCHANGED <<importVars, dataVars>>

\* export, line 196: connect_db answers or fails
Connect ==
    /\ pc = "connect"
    /\ \E ok \in BOOLEAN :
        IF ok
        THEN pc' = "spawn" /\ exportResult' = exportResult
        ELSE pc' = "returned" /\ exportResult' = "Err"
    /\ UNCHANGED <<format, tables, task, joined, reported, disk>>
    /\ UNCHANGED <<importVars, dataVars>>

\* export, lines 199-210: one turn of the loop spawns the next table's task
Spawn ==
    /\ pc = "spawn"
    /\ LET i == Cardinality(Spawned) + 1
       IN  /\ task' = [task EXCEPT ![i].pc = "select"]
           /\ pc' = IF i = Len(tables) THEN "join" ELSE "spawn"
    /\ UNCHANGED <<format, tables, exportResult, joined, reported, disk>>
    /\ UNCHANGED <<importVars, dataVars>>

\* A task that creates its file as soon as it has the name, before the fetch.
SelectAfterCreate(i) ==
    /\ task[i].pc = "select"
    /\ disk' = [disk EXCEPT ![OutFile(i)] = Created]
    /\ \E ok \in BOOLEAN :
        IF ok
        THEN task' = [task EXCEPT
                        ![i].created = TRUE,
                        ![i].records = select_table(DbRows(tables[i])),
                        ![i].pc = IF format = "json" THEN "serialize" ELSE "fields"]
        ELSE task' = [Fail(i, "query") EXCEPT ![i].created = TRUE]
    /\ UNCHANGED <<format, tables, pc, exportResult, joined, reported>>
    /\ UNCHANGED <<importVars, dataVars>>

\* select_table, line 227, then lines 228-237
Select(i) ==
    /\ task[i].pc = "select"
    /\ \E ok \in BOOLEAN :
        IF ok
        THEN task' = [task EXCEPT
                        ![i].records = select_table(DbRows(tables[i])),
                        ![i].pc = IF format = "json" THEN "serialize" ELSE "fields"]
        ELSE task' = Fail(i, "query")
    /\ UNCHANGED <<format, tables, pc, exportResult, joined, reported, disk>>
    /\ UNCHANGED <<importVars, dataVars>>

\* export_table_as_json, line 219
Serialize(i) ==
    /\ task[i].pc = "serialize"
    /\ \E ok \in BOOLEAN :
        IF ok
        THEN task' = [task EXCEPT
                        ![i].json = PrettyJson(Arr(task[i].records)),
                        ![i].pc = "create"]
        ELSE task' = Fail(i, "serialize")
    /\ UNCHANGED <<format, tables, pc, exportResult, joined, reported, disk>>
    /\ UNCHANGED <<importVars, dataVars>>

\* export_table_as_csv, lines 249-250
Fields(i) ==
    /\ task[i].pc = "fields"
    /\ \E resp \in {DbInfo(tables[i]), [kind |-> "query_err"]} :
        LET r == extract_fields(resp)
        IN  IF r.tag = "Ok"
            THEN task' = [task EXCEPT
                            ![i].fields = r.val,
                            ![i].rows = records_to_csv(r.val, task[i].records),
                            ![i].pc = "create"]
            ELSE IF r.tag = "Err" THEN task' = Fail(i, "schema")
            ELSE task' = [task EXCEPT ![i].pc = "panicked", ![i].cause = "panic"]
    /\ UNCHANGED <<format, tables, pc, exportResult, joined, reported, disk>>
    /\ UNCHANGED <<importVars, dataVars>>

\* export_table_as_json, line 220; export_table_as_csv, line 253
Create(i) ==
    /\ task[i].pc = "create"
    /\ \E ok \in BOOLEAN :
        IF ok
        THEN /\ disk' = [disk EXCEPT ![OutFile(i)] = Created]
             /\ task' = [task EXCEPT
                           ![i].created = TRUE,
                           ![i].pc = IF format = "json" THEN "write" ELSE "header"]
        ELSE task' = Fail(i, "io") /\ disk' = disk
    /\ UNCHANGED <<format, tables, pc, exportResult, joined, reported>>
    /\ UNCHANGED <<importVars, dataVars>>

\* What a write adds to the task's file.
Written(i, x) == [disk EXCEPT ![OutFile(i)].data = Append(@, x)]

\* export_table_as_json, line 221
Write(i) ==
    /\ task[i].pc = "write"
    /\ \E ok \in BOOLEAN :
        IF ok
        THEN disk' = Written(i, task[i].json) /\ task' = [task EXCEPT ![i].pc = "done"]
        ELSE task' = Fail(i, "io") /\ disk' = disk
    /\ UNCHANGED <<format, tables, pc, exportResult, joined, reported>>
    /\ UNCHANGED <<importVars, dataVars>>

\* export_table_as_csv, line 256.  The csv writer is taken as unbuffered:
\* what it holds reaches the file at the latest when it is dropped.
Header(i) ==
    /\ task[i].pc = "header"
    /\ \E ok \in BOOLEAN :
        IF ok
        THEN /\ disk' = Written(i, task[i].fields)
             /\ task' = [task EXCEPT ![i].pc = "rows"]
        ELSE task' = Fail(i, "io") /\ disk' = disk
    /\ UNCHANGED <<format, tables, pc, exportResult, joined, reported>>
    /\ UNCHANGED <<importVars, dataVars>>

\* export_table_as_csv, lines 257-260: the rows left to write, then flush
Rows(i) ==
    /\ task[i].pc = "rows"
    /\ \E ok \in BOOLEAN :
        IF ~ok THEN task' = Fail(i, "io") /\ disk' = disk
        ELSE IF task[i].rows = <<>>
        THEN task' = [task EXCEPT ![i].pc = "done"] /\ disk' = disk
        ELSE /\ disk' = Written(i, Head(task[i].rows))
             /\ task' = [task EXCEPT ![i].rows = Tail(@)]
    /\ UNCHANGED <<format, tables, pc, exportResult, joined, reported>>
    /\ UNCHANGED <<importVars, dataVars>>

TaskStep(i) ==
    \/ Select(i)
    \/ Serialize(i)
    \/ Fields(i)
    \/ Create(i)
    \/ Write(i)
    \/ Header(i)
    \/ Rows(i)

\* Dropping a JoinSet aborts the tasks still in it.
DropJoinSet ==
    [i \in 1..Len(tables) |->
        IF i \in Running THEN [task[i] EXCEPT !.pc = "cancelled"] ELSE task[i]]

\* A loop that returns the first failure it is handed (`res??` in its body):
\* the JoinSet is dropped with the other tasks still in it.
JoinNextFailFast ==
    /\ pc = "join"
    /\ \E i \in Spawned \ joined :
        /\ task[i].pc \in Finished
        /\ joined' = joined \cup {i}
        /\ IF task[i].pc = "done"
           THEN UNCHANGED <<pc, exportResult, task>>
           ELSE pc' = "returned" /\ exportResult' = "Err" /\ task' = DropJoinSet
    /\ UNCHANGED <<format, tables, reported, disk>>
    /\ UNCHANGED <<importVars, dataVars>>

\* JoinSet::join_next yields Some: a task has ended.  `while let Some(_)`
\* drops what it yields.
JoinNext ==
    /\ pc = "join"
    /\ \E i \in Spawned \ joined :
        /\ task[i].pc \in Finished
        /\ joined' = joined \cup {i}
    /\ UNCHANGED <<format, tables, pc, exportResult, task, reported, disk>>
    /\ UNCHANGED <<importVars, dataVars>>

\* A loop that returns as soon as one task has ended.
ReturnAfterFirst ==
    /\ pc = "join"
    /\ joined # {}
    /\ pc' = "returned"
    /\ exportResult' = "Ok"
    /\ task' = DropJoinSet
    /\ UNCHANGED <<format, tables, joined, reported, disk>>
    /\ UNCHANGED <<importVars, dataVars>>

\* export, lines 211-212: join_next yields None once the set is empty
Return ==
    /\ pc = "join"
    /\ joined = Spawned
    /\ pc' = "returned"
    /\ exportResult' = "Ok"
    /\ task' = DropJoinSet
    /\ UNCHANGED <<format, tables, joined, reported, disk>>
    /\ UNCHANGED <<importVars, dataVars>>

MainStep == ParseFormat \/ Connect \/ Spawn \/ JoinNext \/ Return

Next ==
    \/ ParseFormat
    \/ Connect
    \/ Spawn
    \/ JoinNext
    \/ Return
    \/ \E i \in 1..MaxTables : i <= Len(tables) /\ Select(i)
    \/ \E i \in 1..MaxTables : i <= Len(tables) /\ Serialize(i)
    \/ \E i \in 1..MaxTables : i <= Len(tables) /\ Fields(i)
    \/ \E i \in 1..MaxTables : i <= Len(tables) /\ Create(i)
    \/ \E i \in 1..MaxTables : i <= Len(tables) /\ Write(i)
    \/ \E i \in 1..MaxTables : i <= Len(tables) /\ Header(i)
    \/ \E i \in 1..MaxTables : i <= Len(tables) /\ Rows(i)

Spec == InitExport /\ [][Next]_vars

\* The runtime keeps running export itself; whether a task's database and
\* file calls ever come back is not the program's to decide.
FairSpec == Spec /\ WF_vars(MainStep)

(***************************************************************************)
(* Claims about export.                                                    *)
(***************************************************************************)
Ended == {"done", "failed", "panicked"}

\* What a task that ran to its end has put in its file.
ExpectedFile(i) ==
    LET recs == select_table(DbRows(tables[i]))
        flds == extract_fields(DbInfo(tables[i])).val
    IN  IF format = "json" THEN <<PrettyJson(Arr(recs))>>
        ELSE <<flds>> \o records_to_csv(flds, recs)

OnlyTaskOf(i) == \A j \in 1..Len(tables) : tables[j] = tables[i] => j = i

\* C1: a task is never cancelled and never waits for a sibling: while it runs
\* its next step can be taken whatever the others did, it ends in failure only
\* on a failure of one of its own steps, and once done it has created and
\* written its own file, which holds the whole table when no other task
\* writes the same file.
C1_TaskIsolation ==
    \A i \in 1..Len(tables) :
        /\ task[i].pc # "cancelled"
        /\ i \in Running => ENABLED TaskStep(i)
        /\ task[i].pc \in {"failed", "panicked"} =>
                task[i].cause \in {"query", "serialize", "schema", "io", "panic"}
        /\ task[i].pc = "done" =>
                /\ task[i].cause = ""
                /\ task[i].created
                /\ disk[OutFile(i)].state = "new"
                /\ OnlyTaskOf(i) => disk[OutFile(i)].data = ExpectedFile(i)

C1_Witness ==
    /\ pc = "returned"
    /\ Len(tables) = 2
    /\ task[1].pc = "failed" /\ task[1].cause = "query"
    /\ task[2].pc = "done"
    /\ disk[OutFile(2)].data = ExpectedFile(2)

\* C2: export has returned Ok only when every task it spawned has ended, by
\* success or by failure; it never returns with a task still running (or cut
\* short); and if the tasks all end, export returns.
C2_JoinBarrier ==
    /\ [](pc = "returned" =>
            /\ Running = {}
            /\ \A i \in Spawned : task[i].pc \in Ended
            /\ exportResult = "Ok" => Spawned = 1..Len(tables) /\ joined = Spawned)
    /\ (<>[](Running = {}) => <>(pc = "returned"))

C2_Witness ==
    /\ pc = "returned" /\ exportResult = "Ok"
    /\ Len(tables) = 2
    /\ task[1].pc = "done" /\ task[2].pc = "failed"

\* C3: when export has finished, the failures it reports are exactly the
\* tables whose task failed.
C3_FailuresReported ==
    (pc = "returned" /\ exportResult = "Ok") =>
        reported = {tables[i] : i \in {j \in 1..Len(tables) : task[j].pc # "done"}}

Creators(f) == {i \in 1..Len(tables) : OutFile(i) = f /\ task[i].created}

\* C10: a task that failed in its fetch or its schema lookup has not created
\* its file, and a file no task has created is never changed.
C10_CreateAfterReads ==
    /\ [](\A i \in 1..Len(tables) :
            (task[i].pc = "failed" /\ task[i].cause \in {"query", "schema"})
                => ~task[i].created)
    /\ [][\A f \in DOMAIN disk : (Creators(f) = {})' => disk'[f] = disk[f]]_vars

C10_Witness ==
    /\ pc = "returned"
    /\ format = "csv"
    /\ Len(tables) = 2
    /\ task[1].pc = "failed" /\ task[1].cause = "schema"
    /\ task[2].pc = "failed" /\ task[2].cause = "query"
    /\ tables[1] # tables[2]
    /\ disk[OutFile(1)] = OldFile
    /\ disk[OutFile(2)] = OldFile

(***************************************************************************)
(* import.  The paths a run can be given, with what the file system says   *)
(* of each: isFile (Path::is_file), ext (Path::extension, NoExt for None), *)
(* stem (file_stem as UTF-8, NoStem when there is none) and doc, the       *)
(* content as JSON reads it.                                               *)
(***************************************************************************)
NoExt == "<no extension>"
NoStem == "<no stem>"
Malformed == [kind |-> "malformed"]
Unreadable == [kind |-> "unreadable"]

Paths == {"a.json", "b.json", "c.json", "d.json", "e", "f.csv", "g.json", "h.txt", "z.json"}

FileInfo(isFile, ext, stem, doc) ==
    [isFile |-> isFile, ext |-> ext, stem |-> stem, doc |-> doc]

PathInfo(path) ==
    CASE path = "a.json" ->
            FileInfo(TRUE, "json", "a",
                     Arr(<<Obj(<<"id", "name">>, <<Num(1), Str("Al")>>),
                           Obj(<<"id">>, <<Num(2)>>)>>))
      [] path = "b.json" -> FileInfo(TRUE, "json", "b", Obj(<<"id">>, <<Num(7)>>))
      [] path = "c.json" -> FileInfo(TRUE, "json", "c", Malformed)
      [] path = "d.json" -> FileInfo(TRUE, "json", "d", Num(42))
      [] path = "e" -> FileInfo(TRUE, NoExt, "e", Obj(<<"id">>, <<Num(3)>>))
      [] path = "f.csv" -> FileInfo(TRUE, "csv", "f", Malformed)
      [] path = "g.json" -> FileInfo(FALSE, "json", "g", Unreadable)
      [] path = "h.txt" -> FileInfo(TRUE, "txt", "h", Str("text"))
      [] path = "z.json" -> FileInfo(TRUE, "json", NoStem, Arr(<<>>))

\* FileFormat::try_from(&OsStr)
try_from(ext) == IF ext \in {"json", "csv"} THEN Ok(ext) ELSE Err("invalid file format")

\* The first position where `all` of line 163 stops: a path whose extension
\* is not the first one's (0: none).
FirstMismatch(paths) ==
    LET ext == PathInfo(paths[1]).ext
        bad == {i \in 1..Len(paths) : PathInfo(paths[i]).ext # ext}
    IN  IF bad = {} THEN 0 ELSE CHOOSE i \in bad : \A j \in bad : i <= j

file_format(paths) ==
    IF \E i \in 1..Len(paths) : ~PathInfo(paths[i]).isFile
    THEN Err("is not a file")
    ELSE IF PathInfo(paths[1]).ext = NoExt
    THEN Err("no file extention was found")
    ELSE LET j == FirstMismatch(paths)
         IN  IF j = 0 THEN try_from(PathInfo(paths[1]).ext)
             ELSE IF PathInfo(paths[j]).ext = NoExt THEN Panic
             ELSE Err("not all files are the same type")

\* generate_insert: Ok carries the query and the records bound to it.
generate_insert(path) ==
    LET doc == PathInfo(path).doc
    IN  IF doc.kind = "unreadable" THEN Err("read")
        ELSE IF doc.kind = "malformed" THEN Err("parse")
        ELSE IF PathInfo(path).stem = NoStem THEN Err("failed to parse stem")
        ELSE Ok([query |-> "INSERT INTO " \o PathInfo(path).stem \o " $records",
                 records |-> IF doc.kind = "array" THEN doc.items ELSE <<doc>>])

InitImport ==
    /\ files \in NonEmptySeq(Paths, MaxFiles)
    /\ imPc = "connect"
    /\ imIdx = 1
    /\ imResult = "none"
    /\ imCause = ""
    /\ loaded = NoResult
    /\ reads = <<>>
    /\ inserts = <<>>
    /\ ExportIdle /\ DataIdle

ImEnd(result, cause) ==
    /\ imPc' = "returned"
    /\ imResult' = result
    /\ imCause' = cause

\* import, line 138
ImConnect ==
    /\ imPc = "connect"
    /\ \E ok \in BOOLEAN :
        IF ok
        THEN imPc' = "file_format" /\ UNCHANGED <<imResult, imCause>>
        ELSE ImEnd("Err", "connect")
    /\ UNCHANGED <<files, imIdx, loaded, reads, inserts>>
    /\ UNCHANGED <<exportVars, dataVars>>

\* import, lines 140-147
ImFileFormat ==
    /\ imPc = "file_format"
    /\ LET r == file_format(files)
       IN  IF r.tag = "Panic" THEN ImEnd("Panic", "unwrap")
           ELSE IF r.tag = "Err" THEN ImEnd("Err", "validation")
           ELSE IF r.val = "csv" THEN ImEnd("Panic", "todo")
           ELSE imPc' = "generate_insert" /\ UNCHANGED <<imResult, imCause>>
    /\ UNCHANGED <<files, imIdx, loaded, reads, inserts>>
    /\ UNCHANGED <<exportVars, dataVars>>

\* import_json, line 171
ImGenerateInsert ==
    /\ imPc = "generate_insert"
    /\ loaded' = generate_insert(files[imIdx])
    /\ reads' = Append(reads, files[imIdx])
    /\ IF loaded'.tag = "Err"
       THEN ImEnd("Err", "load")
       ELSE imPc' = "query" /\ UNCHANGED <<imResult, imCause>>
    /\ UNCHANGED <<files, imIdx, inserts>>
    /\ UNCHANGED <<exportVars, dataVars>>

\* import_json, lines 172-174, and the loop of import, lines 142-148
ImQuery ==
    /\ imPc = "query"
    /\ inserts' = Append(inserts, [path |-> files[imIdx], query |-> loaded.val.query,
                                   records |-> loaded.val.records])
    /\ \E answer \in {"ok", "query_err", "statement_errors"} :
        IF answer = "query_err" THEN ImEnd("Err", "query") /\ UNCHANGED <<imIdx, loaded>>
        ELSE IF answer = "statement_errors"
        THEN ImEnd("Panic", "assert") /\ UNCHANGED <<imIdx, loaded>>
        ELSE IF imIdx = Len(files)
        THEN ImEnd("Ok", "") /\ UNCHANGED <<imIdx, loaded>>
        ELSE /\ imIdx' = imIdx + 1
             /\ loaded' = NoResult
             /\ imPc' = "generate_insert"
             /\ UNCHANGED <<imResult, imCause>>
    /\ UNCHANGED <<files, reads>>
    /\ UNCHANGED <<exportVars, dataVars>>

NextImport == ImConnect \/ ImFileFormat \/ ImGenerateInsert \/ ImQuery

SpecImport == InitImport /\ [][NextImport]_vars

(***************************************************************************)
(* Claims about import.                                                    *)
(***************************************************************************)
Loadable(path) == generate_insert(path).tag = "Ok"

InsertedPaths == [i \in 1..Len(inserts) |-> inserts[i].path]

\* C4: once the connection and the format are settled, import ends without
\* a crash, has read every file, and has sent exactly one insert for each
\* file that loads, in input order, and none for the others.
C4_PerFileFailure ==
    (imPc = "returned" /\ imCause \notin {"connect", "validation", "unwrap", "todo"}) =>
        /\ imResult # "Panic"
        /\ reads = files
        /\ InsertedPaths = SelectSeq(files, Loadable)

Exts(paths) == {PathInfo(paths[i]).ext : i \in 1..Len(paths)}
AllFiles(paths) == \A i \in 1..Len(paths) : PathInfo(paths[i]).isFile

\* C5: once file_format has run, a list of regular files sharing one known
\* extension has been given that format; a list that mixes extensions (a
\* path without one included) or holds a path that is no file has ended
\* import with a validation error value, nothing read and nothing inserted.
C5_FormatResolver ==
    (imPc \notin {"connect", "file_format"} /\ imCause # "connect") =>
        IF AllFiles(files) /\ Cardinality(Exts(files)) = 1
        THEN Exts(files) \subseteq {"json", "csv"} => imCause \notin {"validation", "unwrap"}
        ELSE /\ imResult = "Err" /\ imCause = "validation"
             /\ reads = <<>> /\ inserts = <<>>

\* C6: what generate_insert returned for the file the loop is at: the
\* elements of a root array in file order, a root object alone, and an error
\* for malformed text and for a scalar root.
C6_RecordLoader ==
    (loaded.tag # "None" /\ PathInfo(files[imIdx]).stem # NoStem) =>
        LET doc == PathInfo(files[imIdx]).doc
        IN  CASE doc.kind = "array" ->
                    loaded.tag = "Ok" /\ loaded.val.records = doc.items
              [] doc.kind = "object" ->
                    loaded.tag = "Ok" /\ loaded.val.records = <<doc>>
              [] OTHER -> loaded.tag = "Err"

(***************************************************************************)
(* One table's data through export_table_as_csv, for every answer the      *)
(* database can give.  SpecTable starts when the select has answered,      *)
(* SpecCsv at the call of records_to_csv, with any field list.             *)
(***************************************************************************)
FieldNames == {"id", "a", "b"}
Keys == {0 - 12, 0, 7, 10, 105}

\* Rows as the database returns them.
SampleRows ==
    {Obj(<<"id", "a">>, <<ThingValue("person", IdNumber(k)), Str("Al")>>) : k \in Keys}
    \cup {Obj(<<"b", "id">>, <<Bool(TRUE), ThingValue("t1", IdNumber(7))>>),
          Obj(<<"a", "id">>, <<Null, ThingValue("t1", IdString("abc"))>>),
          Obj(<<"id", "a">>, <<Num(1), Str("Al")>>),
          Obj(<<"id">>, <<Str("person:1")>>),
          Obj(<<"id">>, <<Obj(<<"tb">>, <<Str("person")>>)>>),
          Obj(<<"a", "b">>, <<Str("Bo"), Null>>),
          Num(5)}

\* Records of every kind of value.
SampleRecords ==
    {Obj(<<"a">>, <<Num(1)>>),
     Obj(<<"a", "b">>, <<Null, Bool(TRUE)>>),
     Obj(<<"b", "a">>, <<Str("x"), Num(0 - 12)>>),
     Obj(<<"a", "b">>, <<Arr(<<Num(1), Str("x")>>), Obj(<<"k">>, <<Null>>)>>),
     Obj(<<"id", "a">>, <<Str("7"), Num(105)>>),
     Obj(<<"b">>, <<Bool(FALSE)>>),
     Obj(<<>>, <<>>),
     Num(5)}

DistinctSeqs(S, n) == {q \in BSeq(S, n) : \A i, j \in 1..Len(q) : q[i] = q[j] => i = j}

TableInfo(fieldNames) ==
    Obj(<<"events", "fields">>,
        <<Obj(<<>>, <<>>), Obj(fieldNames, [i \in 1..Len(fieldNames) |-> Str("DEFINE")])>>)

\* Answers to INFO FOR TABLE.
InfoAnswers ==
    {TableInfo(q) : q \in DistinctSeqs(FieldNames, MaxFields)}
    \cup {[kind |-> "query_err"], [kind |-> "take_err"], None,
          Obj(<<"events">>, <<Obj(<<>>, <<>>)>>),
          Obj(<<"fields">>, <<Null>>),
          Obj(<<"fields">>, <<Arr(<<Str("id")>>)>>),
          Arr(<<>>)}

InitTable ==
    /\ dbRows \in BSeq(SampleRows, MaxRecords)
    /\ dbInfo \in InfoAnswers
    /\ csvRecords = <<>>
    /\ csvFields = NoResult
    /\ csvRows = <<>>
    /\ csvFile = <<>>
    /\ csvPc = "select_table"
    /\ ExportIdle /\ ImportIdle

InitCsv ==
    /\ dbRows = <<>>
    /\ dbInfo = None
    /\ csvRecords \in BSeq(SampleRecords, MaxRecords)
    /\ csvFields \in {Ok(q) : q \in BSeq(FieldNames, MaxFields)}
    /\ csvRows = <<>>
    /\ csvFile = <<>>
    /\ csvPc = "records_to_csv"
    /\ ExportIdle /\ ImportIdle

\* export_table_as_csv, line 248, from the database's answer on
TSelectTable ==
    /\ csvPc = "select_table"
    /\ csvRecords' = select_table(dbRows)
    /\ csvPc' = "extract_fields"
    /\ UNCHANGED <<dbRows, dbInfo, csvFields, csvRows, csvFile>>
    /\ UNCHANGED <<exportVars, importVars>>

\* export_table_as_csv, line 249
TExtractFields ==
    /\ csvPc = "extract_fields"
    /\ csvFields' = extract_fields(dbInfo)
    /\ csvPc' = CASE csvFields'.tag = "Ok" -> "records_to_csv"
                  [] csvFields'.tag = "Err" -> "failed"
                  [] OTHER -> "panicked"
    /\ UNCHANGED <<dbRows, dbInfo, csvRecords, csvRows, csvFile>>
    /\ UNCHANGED <<exportVars, importVars>>

\* export_table_as_csv, line 250
TRecordsToCsv ==
    /\ csvPc = "records_to_csv"
    /\ csvRows' = records_to_csv(csvFields.val, csvRecords)
    /\ csvPc' = "write"
    /\ UNCHANGED <<dbRows, dbInfo, csvRecords, csvFields, csvFile>>
    /\ UNCHANGED <<exportVars, importVars>>

\* export_table_as_csv, lines 252-262, with no I/O error
TWrite ==
    /\ csvPc = "write"
    /\ csvFile' = <<csvFields.val>> \o csvRows
    /\ csvPc' = "done"
    /\ UNCHANGED <<dbRows, dbInfo, csvRecords, csvFields, csvRows>>
    /\ UNCHANGED <<exportVars, importVars>>

NextTable == TSelectTable \/ TExtractFields \/ TRecordsToCsv \/ TWrite

SpecTable == InitTable /\ [][NextTable]_vars

NextCsv == TRecordsToCsv \/ TWrite

SpecCsv == InitCsv /\ [][NextCsv]_vars

(***************************************************************************)
(* Claims about the record transformations.  What a number and a value     *)
(* must print as is written out here, value by value.                      *)
(***************************************************************************)
DecimalText(k) ==
    CASE k = 0 - 12 -> "-12"
      [] k = 0 -> "0"
      [] k = 1 -> "1"
      [] k = 5 -> "5"
      [] k = 7 -> "7"
      [] k = 10 -> "10"
      [] k = 105 -> "105"

ExpectedCell(rec, field) ==
    IF rec.kind # "object" \/ ~HasKey(rec, field) THEN "NULL"
    ELSE LET v == rec.vals[KeyIndex(rec, field)]
         IN  CASE v.kind = "null" -> "NULL"
               [] v.kind = "bool" -> IF v.b THEN "true" ELSE "false"
               [] v.kind = "number" -> DecimalText(v.n)
               [] v.kind = "string" -> v.s
               [] v = Arr(<<Num(1), Str("x")>>) -> "[1,\"x\"]"
               [] v = Obj(<<"k">>, <<Null>>) -> "{\"k\":null}"

\* C7: records_to_csv gives one row per record in record order, each row has
\* one cell per field, and cell i is the text of field i's value in that
\* record, "NULL" when the record has no such field or holds null there.
C7_RecordsToCsv ==
    csvPc \in {"write", "done"} =>
        /\ csvFields.tag = "Ok"
        /\ Len(csvRows) = Len(csvRecords)
        /\ \A r \in 1..Len(csvRecords) :
            /\ Len(csvRows[r]) = Len(csvFields.val)
            /\ \A i \in 1..Len(csvFields.val) :
                csvRows[r][i] = ExpectedCell(csvRecords[r], csvFields.val[i])

C7_Witness ==
    /\ csvPc = "write"
    /\ csvFields.val = <<"a", "b">>
    /\ csvRecords = <<Obj(<<"a">>, <<Num(1)>>), Obj(<<"a", "b">>, <<Null, Bool(TRUE)>>)>>
    /\ csvRows = <<<<"1", "NULL">>, <<"NULL", "true">>>>

C7_WitnessEmptyFields ==
    /\ csvPc = "write"
    /\ csvFields.val = <<>>
    /\ Len(csvRecords) = 2
    /\ csvRows = <<<<>>, <<>>>>

\* The native identifier of key k in table T.
denormalize(T, k) == ThingValue(T, IdNumber(k))

NativeIds == {denormalize(T, k) : T \in {"person", "t1"}, k \in Keys}
StringIds == {ThingValue(T, IdString("abc")) : T \in {"person", "t1"}}

\* C8: select_table keeps the number and the order of the rows; a row whose
\* id is the native identifier (T, k) comes out with id the decimal text of
\* k and every other member as it was; a row with no id, or with an id that
\* is no identifier, comes out as it went in.
C8_IdNormalized ==
    csvPc # "select_table" =>
        /\ Len(csvRecords) = Len(dbRows)
        /\ \A i \in 1..Len(dbRows) :
            LET row == dbRows[i]
                out == csvRecords[i]
            IN  IF HasKey(row, "id") /\ Get(row, "id") \in NativeIds
                THEN /\ out.kind = "object"
                     /\ out.keys = row.keys
                     /\ \A j \in 1..Len(row.keys) :
                            IF row.keys[j] = "id"
                            THEN \E T \in {"person", "t1"}, k \in Keys :
                                    /\ row.vals[j] = denormalize(T, k)
                                    /\ out.vals[j] = Str(DecimalText(k))
                            ELSE out.vals[j] = row.vals[j]
                ELSE IF HasKey(row, "id") /\ Get(row, "id") \in StringIds
                THEN out = SetKey(row, "id", Str("abc"))
                ELSE out = row

C8_Witness ==
    /\ csvPc = "extract_fields"
    /\ dbRows = <<Obj(<<"id", "a">>, <<denormalize("person", 105), Str("Al")>>),
                  Obj(<<"a", "b">>, <<Str("Bo"), Null>>)>>
    /\ csvRecords = <<Obj(<<"id", "a">>, <<Str("105"), Str("Al")>>),
                      Obj(<<"a", "b">>, <<Str("Bo"), Null>>)>>

ReportsNoFields(resp) ==
    \/ resp.kind = "none"
    \/ resp.kind = "object" /\ ~HasKey(resp, "fields")
    \/ resp.kind = "object" /\ HasKey(resp, "fields") /\ Get(resp, "fields") = Obj(<<>>, <<>>)

\* C9: when the database reports no fields (an empty or missing fields
\* mapping, or no table info at all) extract_fields returns the empty list
\* and the export ends with an empty header and one empty row per record;
\* otherwise it returns the declared names in the database's order, which
\* is the order of the header.
C9_NoFieldsIsEmpty ==
    /\ (csvPc \notin {"select_table", "extract_fields"} /\ ReportsNoFields(dbInfo)) =>
            /\ csvFields = Ok(<<>>)
            /\ csvPc = "done" =>
                    csvFile = <<<<>>>> \o [r \in 1..Len(dbRows) |-> <<>>]
    /\ \A q \in DistinctSeqs(FieldNames, MaxFields) :
            (csvPc = "done" /\ dbInfo = TableInfo(q)) =>
                csvFields = Ok(q) /\ csvFile[1] = q

====
